---- MODULE Spec2Model ----
(***************************************************************************)
(* LocalStorageStore of ember-simple-auth                                  *)
(* (packages/ember-simple-auth/src/session-stores/local-storage.js).       *)
(*                                                                         *)
(* JavaScript values are tagged records; a JavaScript string and a JSON    *)
(* text are sequences of one-character strings; an object is the sequence  *)
(* of its own properties in insertion order, each [k |-> key, v |-> value].*)
(***************************************************************************)
EXTENDS Integers, Sequences, FiniteSets, TLC

(***************************************************************************)
(* JavaScript values                                                       *)
(***************************************************************************)
Undefined == [undefined |-> TRUE]
Null == [null |-> TRUE]
Num(n) == [number |-> n]
Str(s) == [string |-> s]
Obj(props) == [object |-> props]
EmptyObject == Obj(<<>>)

\* typeof, with null told apart from the objects
TypeOf(x) == CHOOSE t \in DOMAIN x : TRUE

\* ToBoolean: undefined, null, 0 and "" are falsy, every object is truthy.
Truthy(x) ==
    CASE TypeOf(x) = "undefined" -> FALSE
      [] TypeOf(x) = "null" -> FALSE
      [] TypeOf(x) = "number" -> x.number # 0
      [] TypeOf(x) = "string" -> x.string # <<>>
      [] OTHER -> TRUE

\* a || b
OrElse(a, b) == IF Truthy(a) THEN a ELSE b

KeysOf(o) == {o.object[i].k : i \in 1..Len(o.object)}
Get(o, k) == o.object[CHOOSE i \in 1..Len(o.object) : o.object[i].k = k].v

\* o[k] = val: an existing property keeps its position, a new one is appended.
SetProp(props, k, val) ==
    IF \E i \in 1..Len(props) : props[i].k = k
    THEN [i \in 1..Len(props) |->
            IF props[i].k = k THEN [k |-> k, v |-> val] ELSE props[i]]
    ELSE Append(props, [k |-> k, v |-> val])

(***************************************************************************)
(* utils/objects-are-equal: deep structural equality, insensitive to the   *)
(* order of an object's keys.                                              *)
(***************************************************************************)
RECURSIVE objectsAreEqual(_, _)
objectsAreEqual(a, b) ==
    IF TypeOf(a) # TypeOf(b) THEN FALSE
    ELSE IF TypeOf(a) = "object"
    THEN /\ KeysOf(a) = KeysOf(b)
         /\ \A k \in KeysOf(a) : objectsAreEqual(Get(a, k), Get(b, k))
    ELSE a = b

(***************************************************************************)
(* JSON.stringify                                                          *)
(***************************************************************************)
DigitChars == <<"0", "1", "2", "3", "4", "5", "6", "7", "8", "9">>

RECURSIVE NumberText(_)
NumberText(n) ==
    IF n < 10 THEN <<DigitChars[n + 1]>>
    ELSE NumberText(n \div 10) \o <<DigitChars[(n % 10) + 1]>>

Quote(s) == <<"\"">> \o s \o <<"\"">>

RECURSIVE JSONstringify(_)
RECURSIVE PropsText(_, _)
PropsText(props, i) ==
    IF i > Len(props) THEN <<>>
    ELSE (IF i > 1 THEN <<",">> ELSE <<>>)
         \o Quote(props[i].k) \o <<":">> \o JSONstringify(props[i].v)
         \o PropsText(props, i + 1)

JSONstringify(x) ==
    CASE TypeOf(x) = "object" -> <<"{">> \o PropsText(x.object, 1) \o <<"}">>
      [] TypeOf(x) = "string" -> Quote(x.string)
      [] TypeOf(x) = "number" -> NumberText(x.number)
      [] OTHER -> <<"n", "u", "l", "l">>

(***************************************************************************)
(* JSON.parse: a recursive-descent parser over the text.  A parse yields   *)
(* [ok, v, i]: whether a value was read, the value, and the index after it.*)
(***************************************************************************)
ParseFail == [ok |-> FALSE, v |-> Undefined, i |-> 0]
ParseOk(val, next) == [ok |-> TRUE, v |-> val, i |-> next]

At(s, i) == IF i \in 1..Len(s) THEN s[i] ELSE "EOF"

IsDigit(c) == \E d \in 1..Len(DigitChars) : DigitChars[d] = c
DigitValue(c) == (CHOOSE d \in 1..Len(DigitChars) : DigitChars[d] = c) - 1

\* the index of the closing quote of the string whose opening quote is at i-1
RECURSIVE ClosingQuote(_, _)
ClosingQuote(s, i) ==
    IF i > Len(s) THEN 0
    ELSE IF s[i] = "\"" THEN i
    ELSE ClosingQuote(s, i + 1)

ParseString(s, i) ==
    LET q == ClosingQuote(s, i + 1)
    IN  IF q = 0 THEN ParseFail
        ELSE ParseOk(Str(SubSeq(s, i + 1, q - 1)), q + 1)

RECURSIVE ParseDigits(_, _, _)
ParseDigits(s, i, acc) ==
    IF IsDigit(At(s, i)) THEN ParseDigits(s, i + 1, acc * 10 + DigitValue(s[i]))
    ELSE ParseOk(Num(acc), i)

\* no leading zeros: "0" is a number, "01" is not
ParseNumber(s, i) ==
    IF s[i] = "0" THEN ParseOk(Num(0), i + 1)
    ELSE ParseDigits(s, i, 0)

RECURSIVE ParseValue(_, _)
RECURSIVE ParseMembers(_, _, _)
ParseMembers(s, i, props) ==
    IF At(s, i) # "\"" THEN ParseFail
    ELSE LET key == ParseString(s, i)
         IN  IF ~key.ok \/ At(s, key.i) # ":" THEN ParseFail
             ELSE LET val == ParseValue(s, key.i + 1)
                  IN  IF ~val.ok THEN ParseFail
                      ELSE LET more == SetProp(props, key.v.string, val.v)
                           IN  CASE At(s, val.i) = "," -> ParseMembers(s, val.i + 1, more)
                                 [] At(s, val.i) = "}" -> ParseOk(Obj(more), val.i + 1)
                                 [] OTHER -> ParseFail

ParseValue(s, i) ==
    LET c == At(s, i)
    IN  CASE c = "{" -> IF At(s, i + 1) = "}" THEN ParseOk(EmptyObject, i + 2)
                        ELSE ParseMembers(s, i + 1, <<>>)
          [] c = "\"" -> ParseString(s, i)
          [] IsDigit(c) -> ParseNumber(s, i)
          [] c = "n" -> IF i + 3 <= Len(s) /\ SubSeq(s, i, i + 3) = <<"n", "u", "l", "l">>
                        THEN ParseOk(Null, i + 4)
                        ELSE ParseFail
          [] OTHER -> ParseFail

\* JSON.parse(text): the value, or a SyntaxError when the text is no JSON value
JSONparse(text) ==
    LET r == ParseValue(text, 1)
    IN  IF r.ok /\ r.i = Len(text) + 1
        THEN [threw |-> FALSE, v |-> r.v]
        ELSE [threw |-> TRUE, v |-> Undefined]

(***************************************************************************)
(* The store, its host and its consumers                                   *)
(***************************************************************************)
\* LocalStorageStore.key
key == "ember_simple_auth-session"
\* the key of some other slot of the same localStorage
OtherKey == "other-key"

\* the store instances, each in a browsing context (tab) of its own
Stores == {"tab1", "tab2"}

\* the most 'storage' events for key that a window holds undispatched
MaxPending == 2

ab == Obj(<<[k |-> <<"a">>, v |-> Num(1)], [k |-> <<"b">>, v |-> Str(<<"x">>)]>>)
\* what the consumers hand to persist
Inputs == {Undefined, EmptyObject, ab}
\* what scripts other than the store write into the slot at key: a text that
\* is no JSON, and the JSON text of a falsy value
ForeignTexts == {<<"{">>, <<"0">>}

\* the mappings of the round trip: up to two properties in either order, whose
\* values are numbers, strings and mappings of these
PropKeys == {<<"a">>, <<"b">>}
Leaves == {Num(10), Str(<<>>)}
ObjectsOver(V) ==
    {EmptyObject}
    \cup {Obj(<<[k |-> k1, v |-> v1]>>) : k1 \in PropKeys, v1 \in V}
    \cup {Obj(<<[k |-> k1, v |-> v1], [k |-> k2, v |-> v2]>>) :
            <<k1, k2>> \in {kk \in PropKeys \X PropKeys : kk[1] # kk[2]},
            <<v1, v2>> \in V \X V}
Mappings == ObjectsOver(Leaves \cup ObjectsOver(Leaves))

VARIABLES
    storage,       \* localStorage, the slots the store can name: Null where the
                   \* key is absent, else Str(text)
    _lastData,     \* per store: this._lastData
    _isFastBoot,   \* per store: this._isFastBoot
    destroyed,     \* per store: willDestroy has run
    listeners,     \* the stores whose _boundHandler listens for 'storage'
    eventQueue,    \* per window: how many 'storage' events for key are undispatched
    thenQueue,     \* per store: the value of the restore() promise whose callback
                   \* is due, if any; it runs before the window's next event
    lastWrite,     \* history: the latest completed write to the slot at key
    last           \* history: what the latest step did

vars == <<storage, _lastData, _isFastBoot, destroyed, listeners, eventQueue,
          thenQueue, lastWrite, last>>

(***************************************************************************)
(* localStorage                                                            *)
(***************************************************************************)
getItem(st, k) == st[k]
setItem(st, k, text) == [st EXCEPT ![k] = Str(text)]
\* faulty variant: the key is left in place
removeItemKeeps(st, k) == st
removeItem(st, k) == [st EXCEPT ![k] = Null]

\* String(x) as JSON.parse applies it to its argument
ToText(x) == IF TypeOf(x) = "string" THEN x.string ELSE <<"n", "u", "l", "l">>

\* A write by `writer` that changes the slot queues a 'storage' event in every
\* other window; a write that changes nothing queues none.
Notify(writer, changed) ==
    [w \in Stores |->
        IF changed /\ w # writer THEN eventQueue[w] + 1 ELSE eventQueue[w]]

Room(writer, changed) ==
    changed => \A w \in Stores \ {writer} : eventQueue[w] < MaxPending

\* The record of a step:
\*   op, store  the operation and the store it ran on
\*   key        the key of the event dispatched
\*   data       the argument of persist, or of the promise callback
\*   failed     a host primitive (setItem, JSON.parse) threw
\*   result     "resolved": a resolved promise was returned, with `value`;
\*              "rejected": a rejected promise was returned;
\*              "threw": an exception left the method; "returned": a handler
\*              returned; "unheard": the event found no listener of the store
\*   read       getItem was called
\*   wrote      setItem or removeItem was called
\*   emitted    the data of the sessionDataUpdated events triggered
\*   before     _lastData of the store before a handler or callback ran, or
\*              before a persist whose setItem threw
\*   slotBefore the slot before a persist whose setItem threw
\*   follows    the step before was the one this step continues: for clear a
\*              clear of the same store, for the callback the handler of the
\*              same store, for the handler a callback of the same store that
\*              itself followed its handler
\*   second     for the callback: its handler followed in this sense, so that
\*              handler, callback, handler, callback ran back to back
\*   own        for the handler: the step before was a completed persist of
\*              the same store; for the callback: its handler ran directly
\*              before it and was such a handler, so that persist, handler,
\*              callback ran back to back
\*   stale      for persist and clear: the step before was a handler of the
\*              same store whose callback is still to run; for the callback:
\*              the step before was such a persist or clear and it completed,
\*              so that handler, own write, callback ran back to back
NoStep ==
    [op |-> "none", store |-> "none", key |-> "none", data |-> Undefined,
     failed |-> FALSE, result |-> "none", value |-> Undefined, read |-> FALSE,
     wrote |-> FALSE,
     emitted |-> <<>>, before |-> Undefined, slotBefore |-> Null,
     follows |-> FALSE, second |-> FALSE, own |-> FALSE, stale |-> FALSE]

\* the step before was a handler of s whose callback is still to run
HandlerPending(s) ==
    last.op = "storageEvent" /\ last.store = s /\ thenQueue[s] # <<>>

NoWrite == [op |-> "none", data |-> Undefined]

(***************************************************************************)
(* init, willDestroy                                                       *)
(***************************************************************************)
\* faulty variant: the listener is added whatever _isFastBoot says
ListensAfterInitAlways(fastboot) == TRUE
\* init: the listener is added unless the store runs in FastBoot
ListensAfterInit(fastboot) == ~fastboot

\* Every store has been constructed; tab1 runs in a browser, tab2 in a browser
\* or in FastBoot.
Init ==
    /\ storage = [k \in {key} |-> Null]
    /\ _lastData = [s \in Stores |-> Undefined]
    /\ _isFastBoot \in {f \in [Stores -> BOOLEAN] : ~f["tab1"]}
    /\ destroyed = [s \in Stores |-> FALSE]
    /\ listeners = {s \in Stores : ListensAfterInit(_isFastBoot[s])}
    /\ eventQueue = [s \in Stores |-> 0]
    /\ thenQueue = [s \in Stores |-> <<>>]
    /\ lastWrite = NoWrite
    /\ last = NoStep

\* faulty variant: the listener is never removed
ListenersAfterDestroyKept(s) == listeners
\* faulty variant: every listener for 'storage' is removed, not only the
\* store's own _boundHandler
ListenersAfterDestroyAll(s) == IF ~_isFastBoot[s] THEN {} ELSE listeners
\* willDestroy: a store outside FastBoot removes its _boundHandler
ListenersAfterDestroy(s) ==
    IF ~_isFastBoot[s] THEN listeners \ {s} ELSE listeners

willDestroy(s) ==
    /\ ~destroyed[s]
    /\ destroyed' = [destroyed EXCEPT ![s] = TRUE]
    /\ listeners' = ListenersAfterDestroy(s)
    /\ last' = [NoStep EXCEPT !.op = "willDestroy", !.store = s]
    /\ UNCHANGED <<storage, _lastData, _isFastBoot, eventQueue, thenQueue, lastWrite>>

(***************************************************************************)
(* persist, restore, clear                                                 *)
(***************************************************************************)
\* faulty variant: JSON.stringify({} || data)
SerializedDataEmpty(data) == JSONstringify(OrElse(EmptyObject, data))
\* data = JSON.stringify(data || {})
SerializedData(data) == JSONstringify(OrElse(data, EmptyObject))

\* persist(data); setItem either stores the text or throws (quota exceeded,
\* storage disabled), and the exception leaves persist before it returns.
persist(s, data, setItemThrows) ==
    /\ ~destroyed[s]
    /\ _lastData' = [_lastData EXCEPT ![s] = data]
    /\ IF setItemThrows
       THEN /\ UNCHANGED <<storage, eventQueue, lastWrite>>
            /\ last' = [NoStep EXCEPT !.op = "persist", !.store = s, !.key = key,
                                      !.data = data, !.failed = TRUE,
                                      !.result = "threw", !.wrote = TRUE,
                                      !.before = _lastData[s],
                                      !.slotBefore = storage[key],
                                      !.stale = HandlerPending(s)]
       ELSE /\ storage' = setItem(storage, key, SerializedData(data))
            /\ Room(s, storage' # storage)
            /\ eventQueue' = Notify(s, storage' # storage)
            /\ lastWrite' = [op |-> "persist", data |-> data]
            /\ last' = [NoStep EXCEPT !.op = "persist", !.store = s, !.key = key,
                                      !.data = data, !.result = "resolved",
                                      !.wrote = TRUE,
                                      !.stale = HandlerPending(s)]
    /\ UNCHANGED <<_isFastBoot, destroyed, listeners, thenQueue>>

\* faulty variant: JSON.parse(data), without the default
RestoredDataRaw(parsed) == parsed
\* JSON.parse(data) || {}
RestoredData(parsed) == OrElse(parsed, EmptyObject)

\* What restore() does with storage st: [threw, v], the exception of JSON.parse
\* or the value the returned promise is resolved with.
Restore(st) ==
    LET data == getItem(st, key)
        parsed == JSONparse(ToText(data))
    IN  IF parsed.threw THEN parsed
        ELSE [threw |-> FALSE, v |-> RestoredData(parsed.v)]

\* restore() called by a consumer
restore(s) ==
    /\ ~destroyed[s]
    /\ LET r == Restore(storage)
       IN  last' = [NoStep EXCEPT !.op = "restore", !.store = s, !.key = key,
                                  !.failed = r.threw,
                                  !.result = IF r.threw THEN "threw" ELSE "resolved",
                                  !.value = r.v, !.read = TRUE]
    /\ UNCHANGED <<storage, _lastData, _isFastBoot, destroyed, listeners,
                   eventQueue, thenQueue, lastWrite>>

\* faulty variant: this._lastData = undefined
ClearedDataUnset == Undefined
\* this._lastData = {}
ClearedData == EmptyObject

clear(s) ==
    /\ ~destroyed[s]
    /\ storage' = removeItem(storage, key)
    /\ Room(s, storage' # storage)
    /\ _lastData' = [_lastData EXCEPT ![s] = ClearedData]
    /\ eventQueue' = Notify(s, storage' # storage)
    /\ lastWrite' = [op |-> "clear", data |-> Undefined]
    /\ last' = [NoStep EXCEPT !.op = "clear", !.store = s, !.key = key,
                              !.result = "resolved", !.wrote = TRUE,
                              !.follows = (last.op = "clear" /\ last.store = s),
                              !.stale = HandlerPending(s)]
    /\ UNCHANGED <<_isFastBoot, destroyed, listeners, thenQueue>>

(***************************************************************************)
(* _handleStorageEvent                                                     *)
(***************************************************************************)
\* faulty variant: the key of the event is not looked at
KeyMatchesAny(eventKey) == TRUE
\* e.key === this.get('key')
KeyMatches(eventKey) == eventKey = key

\* faulty variant: the comparison is left out
DataChangedAlways(data, snapshot) == TRUE
\* !objectsAreEqual(data, this._lastData)
DataChanged(data, snapshot) == ~objectsAreEqual(data, snapshot)

\* faulty variant: the snapshot is not replaced
UpdatedDataDropped(data, snapshot) == snapshot
\* this._lastData = data
UpdatedData(data, snapshot) == data

\* The window of s dispatches a 'storage' event whose key is e.  With the
\* listener attached _handleStorageEvent(e) runs: for its own key it calls
\* restore(), whose exception ends the handler, and otherwise hands the
\* callback to the promise.
_handleStorageEvent(s, e) ==
    LET step == [NoStep EXCEPT !.op = "storageEvent", !.store = s, !.key = e,
                               !.before = _lastData[s],
                               !.follows = (last.op = "then" /\ last.store = s
                                            /\ last.follows),
                               !.own = (last.op = "persist" /\ last.store = s
                                        /\ last.result = "resolved")]
    IN  IF s \notin listeners
        THEN /\ last' = [step EXCEPT !.result = "unheard"]
             /\ UNCHANGED thenQueue
        ELSE IF ~KeyMatches(e)
        THEN /\ last' = [step EXCEPT !.result = "returned"]
             /\ UNCHANGED thenQueue
        ELSE LET r == Restore(storage)
             IN  IF r.threw
                 THEN /\ last' = [step EXCEPT !.result = "threw", !.read = TRUE,
                                              !.failed = TRUE]
                      /\ UNCHANGED thenQueue
                 ELSE /\ last' = [step EXCEPT !.result = "returned",
                                              !.read = TRUE, !.value = r.v]
                      /\ thenQueue' = [thenQueue EXCEPT ![s] = Append(@, r.v)]

\* the window of s dispatches its oldest undispatched event for key
storageEvent(s) ==
    /\ eventQueue[s] > 0
    /\ thenQueue[s] = <<>>
    /\ eventQueue' = [eventQueue EXCEPT ![s] = @ - 1]
    /\ _handleStorageEvent(s, key)
    /\ UNCHANGED <<storage, _lastData, _isFastBoot, destroyed, listeners, lastWrite>>

\* the callback given to restore().then in _handleStorageEvent
then(s) ==
    /\ thenQueue[s] # <<>>
    /\ thenQueue' = [thenQueue EXCEPT ![s] = Tail(@)]
    /\ LET data == Head(thenQueue[s])
           step == [NoStep EXCEPT !.op = "then", !.store = s, !.key = key,
                                  !.data = data, !.result = "returned",
                                  !.before = _lastData[s],
                                  !.follows = (last.op = "storageEvent"
                                               /\ last.store = s),
                                  !.second = (last.op = "storageEvent"
                                              /\ last.store = s /\ last.follows),
                                  !.own = (last.op = "storageEvent"
                                           /\ last.store = s /\ last.own),
                                  !.stale = (last.op \in {"persist", "clear"}
                                             /\ last.store = s /\ last.stale
                                             /\ last.result = "resolved")]
       IN  IF DataChanged(data, _lastData[s])
           THEN /\ _lastData' = [_lastData EXCEPT ![s] = UpdatedData(data, @)]
                /\ last' = [step EXCEPT !.emitted = <<data>>]
           ELSE /\ UNCHANGED _lastData
                /\ last' = step
    /\ UNCHANGED <<storage, _isFastBoot, destroyed, listeners, eventQueue, lastWrite>>

(***************************************************************************)
(* Other scripts of the origin                                             *)
(***************************************************************************)
AllRoom == \A w \in Stores : eventQueue[w] < MaxPending

\* localStorage.setItem(key, text) by a script that is no store
foreignSetItem(text) ==
    /\ AllRoom
    /\ storage' = setItem(storage, key, text)
    /\ storage' # storage
    /\ eventQueue' = [w \in Stores |-> eventQueue[w] + 1]
    /\ lastWrite' = [op |-> "foreign", data |-> Undefined]
    /\ last' = [NoStep EXCEPT !.op = "foreign", !.key = key]
    /\ UNCHANGED <<_lastData, _isFastBoot, destroyed, listeners, thenQueue>>

\* localStorage.removeItem(key) by a script that is no store
foreignRemoveItem ==
    /\ AllRoom
    /\ storage' = removeItem(storage, key)
    /\ storage' # storage
    /\ eventQueue' = [w \in Stores |-> eventQueue[w] + 1]
    /\ lastWrite' = [op |-> "foreign", data |-> Undefined]
    /\ last' = [NoStep EXCEPT !.op = "foreign", !.key = key]
    /\ UNCHANGED <<_lastData, _isFastBoot, destroyed, listeners, thenQueue>>

\* A script changes the slot at OtherKey, which the model does not hold, and
\* the window of s dispatches the 'storage' event of that change.
otherKeyEvent(s) ==
    /\ thenQueue[s] = <<>>
    /\ _handleStorageEvent(s, OtherKey)
    /\ UNCHANGED <<storage, _lastData, _isFastBoot, destroyed, listeners,
                   eventQueue, lastWrite>>

Next ==
    \/ \E s \in Stores : willDestroy(s)
    \/ \E s \in Stores, data \in Inputs, throws \in BOOLEAN : persist(s, data, throws)
    \/ \E s \in Stores : restore(s)
    \/ \E s \in Stores : clear(s)
    \/ \E s \in Stores : storageEvent(s)
    \/ \E s \in Stores : then(s)
    \/ \E text \in ForeignTexts : foreignSetItem(text)
    \/ foreignRemoveItem
    \/ \E s \in Stores : otherKeyEvent(s)

Spec == Init /\ [][Next]_vars

(***************************************************************************)
(* The round trip over every mapping of Mappings: one store in a browser   *)
(* persists, restores and clears; the window of the other store, which     *)
(* runs in FastBoot and does not listen, dispatches the events it is sent. *)
(***************************************************************************)
RoundTripInit == Init /\ _isFastBoot["tab2"]

RoundTripNext ==
    \/ \E data \in Mappings : persist("tab1", data, FALSE)
    \/ restore("tab1")
    \/ clear("tab1")
    \/ storageEvent("tab2")

RoundTripSpec == RoundTripInit /\ [][RoundTripNext]_vars

(***************************************************************************)
(* Properties                                                              *)
(***************************************************************************)
SlotText == JSONparse(ToText(storage[key]))

\* C1: a restore() that follows a completed persist(M) of a mapping M, with no
\* other write to the slot since, resolves with a value deep-equal to M.
RoundTrip ==
    (last.op = "restore" /\ lastWrite.op = "persist"
        /\ TypeOf(lastWrite.data) = "object")
    => /\ last.result = "resolved"
       /\ objectsAreEqual(last.value, lastWrite.data)

\* a restore after the persist of a mapping that holds two properties, one of
\* them a mapping of two properties itself
RoundTripWitness ==
    /\ last.op = "restore"
    /\ lastWrite.op = "persist"
    /\ TypeOf(lastWrite.data) = "object"
    /\ Len(lastWrite.data.object) = 2
    /\ \E i \in 1..2 :
          /\ TypeOf(lastWrite.data.object[i].v) = "object"
          /\ Len(lastWrite.data.object[i].v.object) = 2
    /\ last.value = lastWrite.data

\* C2: the slot at key is absent when no write has completed or the latest
\* completed write is a clear, and holds exactly the JSON text of the data of
\* the latest completed persist (of {} when the data was undefined) when that
\* is a persist; writes are persist, clear and the writes of foreign scripts,
\* so no other operation of a store changes the slot.
LastWriterWins ==
    /\ lastWrite.op \in {"none", "clear"} => storage[key] = Null
    /\ lastWrite.op = "persist" =>
          storage[key] = Str(JSONstringify(IF lastWrite.data = Undefined
                                           THEN EmptyObject ELSE lastWrite.data))
    /\ (lastWrite.op = "persist" /\ lastWrite.data = ab) =>
          storage[key] = Str(<<"{", "\"", "a", "\"", ":", "1", ",",
                               "\"", "b", "\"", ":", "\"", "x", "\"", "}">>)

\* tab2 clears after tab1 persisted ab: the slot is absent, the snapshot of
\* tab1 still ab
LastWriterWinsWitness ==
    /\ last.op = "clear" /\ last.store = "tab2"
    /\ _lastData["tab1"] = ab
    /\ lastWrite.op = "clear"

\* C3: restore() with the slot at key absent resolves with the empty mapping.
DefaultOnAbsence ==
    (last.op = "restore" /\ storage[key] = Null)
    => /\ last.result = "resolved"
       /\ last.value = EmptyObject

\* a restore of a slot that a clear removed
DefaultOnAbsenceWitness ==
    /\ last.op = "restore"
    /\ storage[key] = Null
    /\ lastWrite.op = "clear"

\* C4: after every clear(), the first and one that follows a clear of the same
\* store alike, the call has succeeded, the slot at key is absent and the
\* snapshot is the empty mapping.
ClearIdempotent ==
    last.op = "clear"
    => /\ last.result = "resolved"
       /\ storage[key] = Null
       /\ _lastData[last.store] = EmptyObject

\* the second of two clears in a row
ClearIdempotentWitness ==
    last.op = "clear" /\ last.follows

\* C5: _handleStorageEvent for an event whose key is not the store's key reads
\* no slot, starts no restore, leaves the snapshot alone and triggers nothing.
Gating ==
    (last.op = "storageEvent" /\ last.result # "unheard" /\ last.key # key)
    => /\ ~last.read
       /\ last.result = "returned"
       /\ thenQueue[last.store] = <<>>
       /\ _lastData[last.store] = last.before
       /\ last.emitted = <<>>

\* an event for the other key handled while the slot holds ab and the snapshot
\* of the store does not
GatingWitness ==
    /\ last.op = "storageEvent" /\ last.result = "returned" /\ last.key = OtherKey
    /\ storage[key] = Str(JSONstringify(ab))
    /\ _lastData[last.store] # ab

\* C6: the callback of a handled event whose restored value is deep-equal to
\* the snapshot triggers nothing and leaves the snapshot as it was.
Dedup ==
    (last.op = "then" /\ objectsAreEqual(last.data, last.before))
    => /\ last.emitted = <<>>
       /\ _lastData[last.store] = last.before

\* the callback ran with ab restored and ab the snapshot
DedupWitness ==
    /\ last.op = "then"
    /\ last.data = ab
    /\ last.before = ab

\* C7: the callback of a handled event whose restored value differs from the
\* snapshot triggers exactly one sessionDataUpdated, with the restored value,
\* and makes that value the snapshot; the callback of a second event, handled
\* right after it with the slot unchanged, triggers nothing.
Update ==
    /\ (last.op = "then" /\ ~objectsAreEqual(last.data, last.before))
       => /\ last.emitted = <<last.data>>
          /\ _lastData[last.store] = last.data
    /\ (last.op = "then" /\ last.second) => last.emitted = <<>>

\* the callback of the second of two events handled back to back, the slot
\* holding ab
UpdateWitness ==
    /\ last.op = "then" /\ last.second
    /\ last.data = ab
    /\ storage[key] = Str(JSONstringify(ab))

\* C8: an event dispatched in the window of a store that was created in a
\* browser and has been torn down reaches no handler of that store: there is
\* no read, no restore, no change of the snapshot and nothing triggered.
AfterTeardown ==
    (last.op = "storageEvent" /\ destroyed[last.store]
        /\ ~_isFastBoot[last.store])
    => /\ last.result = "unheard"
       /\ ~last.read
       /\ thenQueue[last.store] = <<>>
       /\ _lastData[last.store] = last.before
       /\ last.emitted = <<>>

\* an event for key dispatched after teardown while the slot holds ab and the
\* snapshot of the store does not
AfterTeardownWitness ==
    /\ last.op = "storageEvent" /\ last.key = key
    /\ destroyed[last.store] /\ ~_isFastBoot[last.store]
    /\ storage[key] = Str(JSONstringify(ab))
    /\ _lastData[last.store] # ab

\* C9: a persist whose setItem fails returns a rejected promise.
PersistFailureRejects ==
    (last.op = "persist" /\ last.failed) => last.result = "rejected"

\* C10: a restore() of a slot whose text is no JSON returns a rejected promise,
\* every time, as long as the slot holds that text.
MalformedRestoreRejects ==
    (last.op = "restore" /\ SlotText.threw) => last.result = "rejected"

\* C11 as claimed: a store in FastBoot never listens, and its persist, restore
\* and clear call neither getItem nor setItem nor removeItem.
NoOpOutsideBrowser ==
    /\ \A s \in Stores : _isFastBoot[s] => s \notin listeners
    /\ (last.op \in {"persist", "restore", "clear"} /\ _isFastBoot[last.store])
       => (~last.read /\ ~last.wrote)

\* C11 as amended: a store in FastBoot never listens; its persist, restore and
\* clear do not look at _isFastBoot and call localStorage as in a browser:
\* restore reads the slot, a completed persist leaves its text in it, clear
\* leaves it absent.
FastBootOnlySkipsListener ==
    /\ \A s \in Stores : _isFastBoot[s] => s \notin listeners
    /\ (last.op = "restore" /\ _isFastBoot[last.store]) => last.read
    /\ (last.op = "persist" /\ _isFastBoot[last.store])
       => /\ last.wrote
          /\ last.result = "resolved"
             => storage[key] = Str(JSONstringify(IF last.data = Undefined
                                                 THEN EmptyObject ELSE last.data))
    /\ (last.op = "clear" /\ _isFastBoot[last.store])
       => (last.wrote /\ storage[key] = Null)

\* a store in FastBoot has persisted ab into the slot and still has no listener
FastBootOnlySkipsListenerWitness ==
    /\ last.op = "persist" /\ _isFastBoot[last.store]
    /\ last.result = "resolved"
    /\ storage[key] = Str(JSONstringify(ab))
    /\ last.store \notin listeners

\* C12 as claimed: while no operation has run since the stores were created,
\* the snapshot of every store is the empty mapping.
SnapshotEmptyFromInit ==
    last.op = "none" => \A s \in Stores : _lastData[s] = EmptyObject

\* C13 as claimed: once a consumer's restore() has resolved with a value, the
\* snapshot of that store is deep-equal to the value.
RestoreOverwritesSnapshot ==
    (last.op = "restore" /\ last.result = "resolved")
    => objectsAreEqual(_lastData[last.store], last.value)

\* C14: a store's listener is attached exactly while the store was created in
\* a browser and has not been torn down: it is never attached in FastBoot,
\* never attached again after willDestroy, the teardown of one store leaves
\* the listener of every other store in place, and the teardown of a store in
\* FastBoot changes no listener.
ListenerLifecycle ==
    listeners = {s \in Stores : ~_isFastBoot[s] /\ ~destroyed[s]}

\* one browser store has just been torn down while the other browser store is
\* live and still listening
ListenerLifecycleWitness ==
    /\ last.op = "willDestroy"
    /\ ~_isFastBoot[last.store] /\ last.store \notin listeners
    /\ \E o \in Stores \ {last.store} :
          ~_isFastBoot[o] /\ ~destroyed[o] /\ o \in listeners

\* no notification waits for dispatch and no callback waits to run: unless a
\* tab writes again, no snapshot changes any more
Quiescent == \A s \in Stores : eventQueue[s] = 0 /\ thenQueue[s] = <<>>

\* C15 as claimed, all tabs being browser tabs: once the tabs have stopped
\* writing and every notification of their writes has been handled, the
\* snapshot of every live tab is deep-equal to what restore() gives for the
\* slot. Stated on the state in which handling has come to an end, where the
\* snapshots stay as they are.
Converged ==
    (Quiescent /\ lastWrite.op \in {"persist", "clear"}
        /\ \A s \in Stores : ~_isFastBoot[s])
    => \A s \in Stores :
          ~destroyed[s]
          => objectsAreEqual(_lastData[s], Restore(storage).v)

\* C16 as claimed: when a store has completed persist(data), undefined
\* included, and then handles a notification for key while the slot still
\* holds what that persist wrote, the callback triggers nothing and leaves
\* the snapshot as it was.
OwnWriteSilent ==
    (last.op = "then" /\ last.own)
    => (last.emitted = <<>> /\ _lastData[last.store] = last.before)

\* C17 as claimed: a persist whose setItem threw leaves the slot and the
\* snapshot of the store as they were before the call.
FailedPersistKeepsState ==
    (last.op = "persist" /\ last.failed)
    => /\ storage[key] = last.slotBefore
       /\ _lastData[last.store] = last.before

\* C18 as claimed: a callback that runs after willDestroy of its store
\* triggers nothing and leaves the snapshot as it was.
DestroyedStoreSilent ==
    (last.op = "then" /\ destroyed[last.store])
    => (last.emitted = <<>> /\ _lastData[last.store] = last.before)

\* C19 as claimed: when a persist or clear of the store itself completed
\* between the handler's read and its callback, and nothing else was written
\* in between, any event the callback triggers carries data deep-equal to
\* what restore() gives for the slot at that moment, never the older value.
NoStaleOverwrite ==
    (last.op = "then" /\ last.stale /\ last.emitted # <<>>)
    => objectsAreEqual(last.emitted[1], Restore(storage).v)
====
